---- MODULE Spec2Model ----
(***************************************************************************)
(* Volume-discount rules of the Shopify discount app.                      *)
(*                                                                         *)
(*  - the shop metafield custom.volume_discount_rules (the rule store),    *)
(*  - the admin routes that create and edit a discount: each reads the     *)
(*    store, merges one rule into the parsed rule set and writes it back,  *)
(*  - the Shopify Function cartLinesDiscountsGenerateRun, which parses the *)
(*    store and picks one percentage per cart line.                        *)
(***************************************************************************)
EXTENDS Integers, Sequences, FiniteSets, TLC

(***************************************************************************)
(* JSON values, as the JavaScript code sees them.  A value is a record     *)
(* with one field, whose name is its type.                                 *)
(***************************************************************************)
Undef == [undef |-> TRUE]
Null == [null |-> TRUE]
JBool(b) == [bool |-> b]
JNum(n) == [num |-> n]
JStr(s) == [str |-> s]
JArr(a) == [arr |-> a]
JObj(f) == [obj |-> f]

IsUndef(v) == "undef" \in DOMAIN v
IsNull(v) == "null" \in DOMAIN v
IsBool(v) == "bool" \in DOMAIN v
IsNum(v) == "num" \in DOMAIN v
IsStr(v) == "str" \in DOMAIN v
IsArr(v) == "arr" \in DOMAIN v
IsObj(v) == "obj" \in DOMAIN v

\* The keys an object of the store can carry; an absent key reads undefined.
Keys == {"discountId", "percentOff", "products", "minQty", "rules"}

\* An object literal: the given fields, every other key absent.
Obj(f) == JObj([k \in Keys |-> IF k \in DOMAIN f THEN f[k] ELSE Undef])

\* !v
Falsy(v) ==
  \/ IsUndef(v)
  \/ IsNull(v)
  \/ (IsBool(v) /\ ~v.bool)
  \/ (IsNum(v) /\ v.num = 0)
  \/ (IsStr(v) /\ v.str = "")

\* typeof v === "object": null, arrays and objects
TypeofObject(v) == IsNull(v) \/ IsArr(v) \/ IsObj(v)

\* Reading a property of undefined or null raises a TypeError.
PropThrows(v) == IsUndef(v) \/ IsNull(v)

\* v.k for a value that is not undefined or null
Prop(v, k) == IF IsObj(v) THEN v.obj[k] ELSE Undef

(***************************************************************************)
(* JavaScript numbers: a finite number (an integer here), NaN or Infinity. *)
(***************************************************************************)
Fin(n) == [fin |-> n]
NaN == [nan |-> TRUE]
Infinity == [inf |-> TRUE]

\* Number.isFinite
IsFinite(x) == "fin" \in DOMAIN x

Digits == {"0", "1", "2", "3", "4", "5", "6", "7", "8", "9"}

DigitValue(c) ==
  CASE c = "0" -> 0 [] c = "1" -> 1 [] c = "2" -> 2 [] c = "3" -> 3
    [] c = "4" -> 4 [] c = "5" -> 5 [] c = "6" -> 6 [] c = "7" -> 7
    [] c = "8" -> 8 [] OTHER -> 9

\* /^\d+$/.test(s)
IsDigits(s) == Len(s) > 0 /\ \A i \in 1..Len(s) : SubSeq(s, i, i) \in Digits

RECURSIVE DecimalValue(_)
DecimalValue(s) ==
  IF Len(s) = 0 THEN 0
  ELSE 10 * DecimalValue(SubSeq(s, 1, Len(s) - 1)) + DigitValue(SubSeq(s, Len(s), Len(s)))

\* Number(s) for a string: the empty string is 0, a decimal numeral (with an
\* optional sign) its value, "Infinity" is Infinity, anything else NaN.
StringToNumber(s) ==
  IF s = "" THEN Fin(0)
  ELSE IF IsDigits(s) THEN Fin(DecimalValue(s))
  ELSE IF Len(s) > 1 /\ SubSeq(s, 1, 1) = "-" /\ IsDigits(SubSeq(s, 2, Len(s)))
    THEN Fin(0 - DecimalValue(SubSeq(s, 2, Len(s))))
  ELSE IF s = "Infinity" THEN Infinity
  ELSE NaN

\* typeof v === "number" ? v : typeof v === "string" ? Number(v) : NaN
CoerceNumber(v) ==
  IF IsNum(v) THEN Fin(v.num)
  ELSE IF IsStr(v) THEN StringToNumber(v.str)
  ELSE NaN

\* Faulty variant: every text entry is kept, the empty one too.
RECURSIVE FilterProductIdsAnyText(_)
FilterProductIdsAnyText(a) ==
  IF a = <<>> THEN <<>>
  ELSE LET rest == FilterProductIdsAnyText(Tail(a)) IN
       IF IsStr(Head(a)) THEN <<Head(a).str>> \o rest ELSE rest

\* raw.filter(id => typeof id === "string" && id.length > 0), as strings
RECURSIVE FilterProductIds(_)
FilterProductIds(a) ==
  IF a = <<>> THEN <<>>
  ELSE LET rest == FilterProductIds(Tail(a)) IN
       IF IsStr(Head(a)) /\ Len(Head(a).str) > 0 THEN <<Head(a).str>> \o rest ELSE rest

\* Faulty variant: the test forgets that typeof null is "object".
NotAnObjectTypeofOnly(raw) == ~TypeofObject(raw)

\* !raw || typeof raw !== "object": the test every parser starts with
NotAnObject(raw) == Falsy(raw) \/ ~TypeofObject(raw)

\* The result of a single-rule validator: a rule, null, or a TypeError raised by
\* reading a property of undefined or null.
NoRule == [none |-> TRUE]
Thrown == [thrown |-> TRUE]
IsThrown(r) == "thrown" \in DOMAIN r
IsRule(r) == "none" \notin DOMAIN r /\ "thrown" \notin DOMAIN r

(***************************************************************************)
(* The Shopify Function                                                    *)
(***************************************************************************)

\* Faulty variant: minQty is only required to be finite.
FnParseRuleAnyMinQty(raw) ==
  IF NotAnObject(raw) THEN NoRule
  ELSE IF PropThrows(raw) THEN Thrown
  ELSE LET percentOff == CoerceNumber(Prop(raw, "percentOff"))
           productsValue == Prop(raw, "products")
           minQty == CoerceNumber(Prop(raw, "minQty"))
       IN  IF ~IsFinite(percentOff) THEN NoRule
           ELSE IF percentOff.fin < 1 \/ percentOff.fin > 80 THEN NoRule
           ELSE IF ~IsArr(productsValue) THEN NoRule
           ELSE IF FilterProductIds(productsValue.arr) = <<>> THEN NoRule
           ELSE IF ~IsFinite(minQty) THEN NoRule
           ELSE [percentOff |-> percentOff.fin,
                 products |-> FilterProductIds(productsValue.arr),
                 minQty |-> minQty.fin]

\* parseRule of the function: percentOff within [1,80], at least one product
\* id, minQty >= 2.
FnParseRule(raw) ==
  IF NotAnObject(raw) THEN NoRule
  ELSE IF PropThrows(raw) THEN Thrown
  ELSE LET percentOff == CoerceNumber(Prop(raw, "percentOff"))
           productsValue == Prop(raw, "products")
           minQty == CoerceNumber(Prop(raw, "minQty"))
       IN  IF ~IsFinite(percentOff) THEN NoRule
           ELSE IF percentOff.fin < 1 \/ percentOff.fin > 80 THEN NoRule
           ELSE IF ~IsArr(productsValue) THEN NoRule
           ELSE IF FilterProductIds(productsValue.arr) = <<>> THEN NoRule
           ELSE IF ~IsFinite(minQty) THEN NoRule
           ELSE IF minQty.fin < 2 THEN NoRule
           ELSE [percentOff |-> percentOff.fin,
                 products |-> FilterProductIds(productsValue.arr),
                 minQty |-> minQty.fin]

\* JSON.parse of a stored text: [ok |-> FALSE] is a SyntaxError.
LegacyText == "{\"percentOff\":10,\"products\":[\"P1\"],\"minQty\":2}"
RulesText == "{\"rules\":[{\"percentOff\":25,\"products\":[\"P1\"],\"minQty\":3}]}"

JSONParse(s) ==
  IF IsDigits(s) THEN [ok |-> TRUE, v |-> JNum(DecimalValue(s))]
  ELSE IF s = "null" THEN [ok |-> TRUE, v |-> Null]
  ELSE IF s = "true" THEN [ok |-> TRUE, v |-> JBool(TRUE)]
  ELSE IF s = "[]" THEN [ok |-> TRUE, v |-> JArr(<<>>)]
  ELSE IF s = "\"rules\"" THEN [ok |-> TRUE, v |-> JStr("rules")]
  ELSE IF s = LegacyText
    THEN [ok |-> TRUE,
          v |-> Obj([percentOff |-> JNum(10), products |-> JArr(<<JStr("P1")>>),
                     minQty |-> JNum(2)])]
  ELSE IF s = RulesText
    THEN [ok |-> TRUE,
          v |-> Obj([rules |-> JArr(<<Obj([percentOff |-> JNum(25),
                                           products |-> JArr(<<JStr("P1")>>),
                                           minQty |-> JNum(3)])>>)])]
  ELSE [ok |-> FALSE, v |-> Undef]

\* What a parser hands back: the rules, or an exception raised on the way.
Returned(rules) == [raised |-> FALSE, rules |-> rules]
Raised == [raised |-> TRUE, rules |-> <<>>]

\* Faulty variant: the first element that fails validation ends the walk, and
\* the elements after it are dropped with it.
RECURSIVE KeepRulesUntilInvalid(_)
KeepRulesUntilInvalid(mapped) ==
  IF mapped = <<>> THEN [raised |-> FALSE, rules |-> <<>>]
  ELSE IF IsThrown(Head(mapped)) THEN [raised |-> TRUE, rules |-> <<>>]
  ELSE IF ~IsRule(Head(mapped)) THEN [raised |-> FALSE, rules |-> <<>>]
  ELSE LET rest == KeepRulesUntilInvalid(Tail(mapped)) IN
       [raised |-> rest.raised,
        rules |-> IF rest.raised THEN <<>> ELSE <<Head(mapped)>> \o rest.rules]

\* rulesValue.map(parseRule).filter(Boolean), given the mapped results: an
\* exception raised for one element ends the whole call.
KeepRules(mapped) ==
  IF \E i \in 1..Len(mapped) : IsThrown(mapped[i]) THEN Raised
  ELSE Returned(SelectSeq(mapped, IsRule))

\* parseDiscountRules of the function, on shop.metafield.jsonValue
FnParseDiscountRules(jsonValue) ==
  LET decoded == IF IsStr(jsonValue) THEN JSONParse(jsonValue.str)
                 ELSE [ok |-> TRUE, v |-> jsonValue]
      raw == decoded.v
  IN  IF ~decoded.ok THEN Returned(<<>>)
      ELSE IF NotAnObject(raw) THEN Returned(<<>>)
      ELSE IF PropThrows(raw) THEN Raised
      ELSE LET rulesValue == Prop(raw, "rules") IN
           IF IsArr(rulesValue)
             THEN KeepRules([i \in 1..Len(rulesValue.arr) |->
                                        FnParseRule(rulesValue.arr[i])])
           ELSE IF IsThrown(FnParseRule(raw)) THEN Raised
           ELSE IF IsRule(FnParseRule(raw)) THEN Returned(<<FnParseRule(raw)>>)
           ELSE Returned(<<>>)

\* A cart line references a product unless its merchandise is a custom product.
HasProduct(line) == "product" \in DOMAIN line.merchandise

\* Faulty variant: the last matching rule wins, whatever its percentage.
RECURSIVE BestPercentLastMatch(_, _, _)
BestPercentLastMatch(rules, line, bestPercent) ==
  IF rules = <<>> THEN bestPercent
  ELSE LET rule == Head(rules) IN
       IF line.quantity < rule.minQty THEN BestPercentLastMatch(Tail(rules), line, bestPercent)
       ELSE IF \A i \in 1..Len(rule.products) : rule.products[i] # line.merchandise.product
         THEN BestPercentLastMatch(Tail(rules), line, bestPercent)
       ELSE BestPercentLastMatch(Tail(rules), line, rule.percentOff)

\* The loop over the rules of one line (lines 107-114): the best percentage so
\* far, starting from 0.
RECURSIVE BestPercent(_, _, _)
BestPercent(rules, line, bestPercent) ==
  IF rules = <<>> THEN bestPercent
  ELSE LET rule == Head(rules) IN
       IF line.quantity < rule.minQty THEN BestPercent(Tail(rules), line, bestPercent)
       ELSE IF \A i \in 1..Len(rule.products) : rule.products[i] # line.merchandise.product
         THEN BestPercent(Tail(rules), line, bestPercent)
       ELSE IF rule.percentOff > bestPercent
         THEN BestPercent(Tail(rules), line, rule.percentOff)
       ELSE BestPercent(Tail(rules), line, bestPercent)

\* The filter callback (lines 104-119): whether the line is kept.
LineKept(rules, line) == HasProduct(line) /\ BestPercent(rules, line, 0) # 0

\* linePercentMap once the filter has visited every line: a later line with the
\* same id overwrites an earlier one.
RECURSIVE LinePercentMap(_, _, _)
LinePercentMap(rules, lines, map) ==
  IF lines = <<>> THEN map
  ELSE LET line == Head(lines) IN
       IF LineKept(rules, line)
         THEN LinePercentMap(rules, Tail(lines),
                [id \in DOMAIN map \cup {line.id} |->
                    IF id = line.id THEN BestPercent(rules, line, 0) ELSE map[id]])
       ELSE LinePercentMap(rules, Tail(lines), map)

EmptyMap == [id \in {} |-> 0]

\* Faulty variant: the operation is returned whenever a rule parsed, with
\* no candidate when no line qualifies.
CartLinesDiscountsGenerateRunAlwaysOperation(jsonValue, lines) ==
  LET parsed == FnParseDiscountRules(jsonValue)
      rules == parsed.rules
      kept == SelectSeq(lines, LAMBDA line : LineKept(rules, line))
      map == LinePercentMap(rules, lines, EmptyMap)
      candidates == [i \in 1..Len(kept) |->
                       [targets |-> <<kept[i].id>>,
                        percentage |-> IF kept[i].id \in DOMAIN map
                                       THEN map[kept[i].id] ELSE 0]]
  IN  IF parsed.raised THEN [ran |-> TRUE, raised |-> TRUE, operations |-> <<>>]
      ELSE IF Len(rules) = 0 THEN [ran |-> TRUE, raised |-> FALSE, operations |-> <<>>]
      ELSE [ran |-> TRUE, raised |-> FALSE,
            operations |-> <<[selectionStrategy |-> "ALL", candidates |-> candidates]>>]

\* cartLinesDiscountsGenerateRun: the operations of the result
CartLinesDiscountsGenerateRun(jsonValue, lines) ==
  LET parsed == FnParseDiscountRules(jsonValue)
      rules == parsed.rules
      kept == SelectSeq(lines, LAMBDA line : LineKept(rules, line))
      map == LinePercentMap(rules, lines, EmptyMap)
      candidates == [i \in 1..Len(kept) |->
                       [targets |-> <<kept[i].id>>,
                        percentage |-> IF kept[i].id \in DOMAIN map
                                       THEN map[kept[i].id] ELSE 0]]
  IN  IF parsed.raised THEN [ran |-> TRUE, raised |-> TRUE, operations |-> <<>>]
      ELSE IF Len(rules) = 0 THEN [ran |-> TRUE, raised |-> FALSE, operations |-> <<>>]
      ELSE IF Len(candidates) = 0 THEN [ran |-> TRUE, raised |-> FALSE, operations |-> <<>>]
      ELSE [ran |-> TRUE, raised |-> FALSE,
            operations |-> <<[selectionStrategy |-> "ALL", candidates |-> candidates]>>]

(***************************************************************************)
(* The admin routes                                                        *)
(***************************************************************************)

\* parseRule of the create route: a finite percentOff, products an array,
\* minQty >= 2; discountId kept only when it is a string.
CreateParseRule(raw) ==
  IF NotAnObject(raw) THEN NoRule
  ELSE IF PropThrows(raw) THEN Thrown
  ELSE LET percentOff == CoerceNumber(Prop(raw, "percentOff"))
           rawProducts == Prop(raw, "products")
           minQty == CoerceNumber(Prop(raw, "minQty"))
           rawId == Prop(raw, "discountId")
       IN  IF ~IsFinite(percentOff) THEN NoRule
           ELSE IF ~IsArr(rawProducts) THEN NoRule
           ELSE IF ~IsFinite(minQty) THEN NoRule
           ELSE IF minQty.fin < 2 THEN NoRule
           ELSE [discountId |-> IF IsStr(rawId) THEN rawId ELSE Undef,
                 percentOff |-> percentOff.fin,
                 products |-> FilterProductIds(rawProducts.arr),
                 minQty |-> minQty.fin]

\* Faulty variant: no fallback to the legacy shape.
CreateParseRulesNoLegacy(jsonValue) ==
  LET decoded == IF IsStr(jsonValue) THEN JSONParse(jsonValue.str)
                 ELSE [ok |-> TRUE, v |-> jsonValue]
      raw == decoded.v
  IN  IF ~decoded.ok THEN Returned(<<>>)
      ELSE IF NotAnObject(raw) THEN Returned(<<>>)
      ELSE IF PropThrows(raw) THEN Raised
      ELSE LET rulesValue == Prop(raw, "rules") IN
           IF IsArr(rulesValue)
             THEN KeepRules([i \in 1..Len(rulesValue.arr) |->
                               CreateParseRule(rulesValue.arr[i])])
           ELSE Returned(<<>>)

\* parseRules of the create route
CreateParseRules(jsonValue) ==
  LET decoded == IF IsStr(jsonValue) THEN JSONParse(jsonValue.str)
                 ELSE [ok |-> TRUE, v |-> jsonValue]
      raw == decoded.v
  IN  IF ~decoded.ok THEN Returned(<<>>)
      ELSE IF NotAnObject(raw) THEN Returned(<<>>)
      ELSE IF PropThrows(raw) THEN Raised
      ELSE LET rulesValue == Prop(raw, "rules") IN
           IF IsArr(rulesValue)
             THEN KeepRules([i \in 1..Len(rulesValue.arr) |->
                                        CreateParseRule(rulesValue.arr[i])])
           ELSE IF IsThrown(CreateParseRule(raw)) THEN Raised
           ELSE IF IsRule(CreateParseRule(raw)) THEN Returned(<<CreateParseRule(raw)>>)
           ELSE Returned(<<>>)

\* parseRule of the edit route (the same text as the create route's)
EditParseRule(raw) ==
  IF NotAnObject(raw) THEN NoRule
  ELSE IF PropThrows(raw) THEN Thrown
  ELSE LET percentOff == CoerceNumber(Prop(raw, "percentOff"))
           rawProducts == Prop(raw, "products")
           minQty == CoerceNumber(Prop(raw, "minQty"))
           rawId == Prop(raw, "discountId")
       IN  IF ~IsFinite(percentOff) THEN NoRule
           ELSE IF ~IsArr(rawProducts) THEN NoRule
           ELSE IF ~IsFinite(minQty) THEN NoRule
           ELSE IF minQty.fin < 2 THEN NoRule
           ELSE [discountId |-> IF IsStr(rawId) THEN rawId ELSE Undef,
                 percentOff |-> percentOff.fin,
                 products |-> FilterProductIds(rawProducts.arr),
                 minQty |-> minQty.fin]

\* parseRules of the edit route
EditParseRules(jsonValue) ==
  LET decoded == IF IsStr(jsonValue) THEN JSONParse(jsonValue.str)
                 ELSE [ok |-> TRUE, v |-> jsonValue]
      raw == decoded.v
  IN  IF ~decoded.ok THEN Returned(<<>>)
      ELSE IF NotAnObject(raw) THEN Returned(<<>>)
      ELSE IF PropThrows(raw) THEN Raised
      ELSE LET rulesValue == Prop(raw, "rules") IN
           IF IsArr(rulesValue)
             THEN KeepRules([i \in 1..Len(rulesValue.arr) |->
                                        EditParseRule(rulesValue.arr[i])])
           ELSE IF IsThrown(EditParseRule(raw)) THEN Raised
           ELSE IF IsRule(EditParseRule(raw)) THEN Returned(<<EditParseRule(raw)>>)
           ELSE Returned(<<>>)

\* matchedRule of the edit loader (lines 660-665): the first rule whose
\* discountId is the route's id, raw or normalized; failing that, the only
\* rule of the set when it has no id.
MatchedRule(rules, paramsId, discountNodeId) ==
  LET found == SelectSeq(rules, LAMBDA rule : \/ rule.discountId = paramsId
                                              \/ rule.discountId = discountNodeId)
  IN  IF found # <<>> THEN Head(found)
      ELSE IF Len(rules) = 1 /\ Falsy(rules[1].discountId) THEN rules[1]
      ELSE NoRule

\* String(value).trim(), for the blanks a form field can carry
RECURSIVE Trim(_)
Trim(s) ==
  IF Len(s) = 0 THEN s
  ELSE IF SubSeq(s, 1, 1) = " " THEN Trim(SubSeq(s, 2, Len(s)))
  ELSE IF SubSeq(s, Len(s), Len(s)) = " " THEN Trim(SubSeq(s, 1, Len(s) - 1))
  ELSE s

\* s.startsWith(prefix)
StartsWith(s, prefix) == Len(s) >= Len(prefix) /\ SubSeq(s, 1, Len(prefix)) = prefix

\* s.includes(part)
Includes(s, part) ==
  \E i \in 1..Len(s) : i + Len(part) - 1 <= Len(s) /\ SubSeq(s, i, i + Len(part) - 1) = part

\* s.split("/").pop(): what follows the last "/"
RECURSIVE LastSegment(_)
LastSegment(s) ==
  IF ~Includes(s, "/") THEN s
  ELSE LastSegment(SubSeq(s, 2, Len(s)))

HexDigits == Digits \cup {"A", "B", "C", "D", "E", "F", "a", "b", "c", "d", "e", "f"}

\* The character of an escape sequence %XX (the ones a discount id can carry).
EscapedChar(xx) ==
  CASE xx = "3A" -> ":" [] xx = "3a" -> ":"
    [] xx = "2F" -> "/" [] xx = "2f" -> "/"
    [] xx = "25" -> "%"
    [] OTHER -> "?"

\* decodeURIComponent(s): [ok |-> FALSE] is a URIError, raised for a "%" that
\* two hexadecimal digits do not follow.
RECURSIVE DecodeURIComponent(_)
DecodeURIComponent(s) ==
  IF Len(s) = 0 THEN [ok |-> TRUE, v |-> ""]
  ELSE IF SubSeq(s, 1, 1) # "%"
    THEN LET rest == DecodeURIComponent(SubSeq(s, 2, Len(s))) IN
         [ok |-> rest.ok, v |-> SubSeq(s, 1, 1) \o rest.v]
  ELSE IF Len(s) < 3 THEN [ok |-> FALSE, v |-> ""]
  ELSE IF SubSeq(s, 2, 2) \notin HexDigits \/ SubSeq(s, 3, 3) \notin HexDigits
    THEN [ok |-> FALSE, v |-> ""]
  ELSE LET rest == DecodeURIComponent(SubSeq(s, 4, Len(s))) IN
       [ok |-> rest.ok, v |-> EscapedChar(SubSeq(s, 2, 3)) \o rest.v]

\* normalizeDiscountIds(rawId): the DiscountNode id the rules are keyed by and the
\* id the update mutation takes; thrown when decodeURIComponent raises.
NormalizeDiscountIds(rawId) ==
  IF Falsy(rawId) THEN [thrown |-> FALSE, discountNodeId |-> Undef, updateId |-> Undef]
  ELSE LET dec == DecodeURIComponent(rawId.str)
           decoded == dec.v
           numeric == LastSegment(decoded)
       IN  IF ~dec.ok THEN [thrown |-> TRUE, discountNodeId |-> Undef, updateId |-> Undef]
           ELSE IF StartsWith(decoded, "gid://")
             THEN IF Includes(decoded, "/DiscountNode/")
                    THEN [thrown |-> FALSE, discountNodeId |-> JStr(decoded),
                          updateId |-> JStr(decoded)]
                  ELSE IF Includes(decoded, "/DiscountAutomaticApp/")
                    THEN [thrown |-> FALSE,
                          discountNodeId |->
                            IF numeric # "" THEN JStr("gid://shopify/DiscountNode/" \o numeric)
                            ELSE JStr(decoded),
                          updateId |-> JStr(decoded)]
                  ELSE [thrown |-> FALSE, discountNodeId |-> JStr(decoded),
                        updateId |-> JStr(decoded)]
           ELSE IF IsDigits(decoded)
             THEN [thrown |-> FALSE,
                   discountNodeId |-> JStr("gid://shopify/DiscountNode/" \o decoded),
                   updateId |-> JStr("gid://shopify/DiscountAutomaticApp/" \o decoded)]
           ELSE [thrown |-> FALSE, discountNodeId |-> JStr(decoded), updateId |-> JStr(decoded)]

\* The rule an action appends
NewRule(discountId, products, percentOff) ==
  [discountId |-> discountId, percentOff |-> percentOff, products |-> products, minQty |-> 2]

\* Faulty variant: a blind overwrite, the new rule alone.
CreateUpdatedRulesOverwrite(existingRules, discountId, products, percentOff) ==
  <<NewRule(discountId, products, percentOff)>>

\* Faulty variant: the new rule is appended and nothing is removed.
CreateUpdatedRulesAppend(existingRules, discountId, products, percentOff) ==
  existingRules \o <<NewRule(discountId, products, percentOff)>>

\* updatedRules of the create action (lines 264-274)
CreateUpdatedRules(existingRules, discountId, products, percentOff) ==
  SelectSeq(existingRules,
            LAMBDA rule : Falsy(rule.discountId) \/ rule.discountId # discountId)
    \o <<NewRule(discountId, products, percentOff)>>

\* Faulty variant: a blind overwrite, the edited rule alone.
EditUpdatedRulesOverwrite(existingRules, discountNodeId, updateId, products, percentOff) ==
  <<NewRule(discountNodeId, products, percentOff)>>

\* Faulty variant: the edited rule is appended and nothing is removed.
EditUpdatedRulesAppend(existingRules, discountNodeId, updateId, products, percentOff) ==
  existingRules \o <<NewRule(discountNodeId, products, percentOff)>>

\* Faulty variant: the filter keeps only rules that carry another id, so a rule
\* without an id goes too.
EditUpdatedRulesKeepIdentified(existingRules, discountNodeId, updateId, products, percentOff) ==
  SelectSeq(existingRules,
            LAMBDA rule : ~Falsy(rule.discountId) /\ rule.discountId # discountNodeId)
    \o <<NewRule(discountNodeId, products, percentOff)>>

\* Faulty variant: a set made of one rule without an id is taken for the
\* edited discount's and replaced.
EditUpdatedRulesDropLegacy(existingRules, discountNodeId, updateId, products, percentOff) ==
  IF Len(existingRules) = 1 /\ Falsy(existingRules[1].discountId)
    THEN <<NewRule(discountNodeId, products, percentOff)>>
  ELSE SelectSeq(existingRules,
                 LAMBDA rule : Falsy(rule.discountId) \/ rule.discountId # discountNodeId)
         \o <<NewRule(discountNodeId, products, percentOff)>>

\* Faulty variant: a discount that has a rule keeps it, and the edited rule
\* is written only when there is none yet.
EditUpdatedRulesKeepExisting(existingRules, discountNodeId, updateId, products, percentOff) ==
  IF \E i \in 1..Len(existingRules) : existingRules[i].discountId = discountNodeId
    THEN existingRules
  ELSE existingRules \o <<NewRule(discountNodeId, products, percentOff)>>

\* updatedRules of the edit action (lines 769-783)
EditUpdatedRules(existingRules, discountNodeId, updateId, products, percentOff) ==
  SelectSeq(existingRules,
            LAMBDA rule :
              \/ Falsy(rule.discountId)
              \/ IF ~Falsy(discountNodeId) THEN rule.discountId # discountNodeId
                 ELSE rule.discountId # updateId)
    \o <<NewRule(IF IsUndef(discountNodeId) \/ IsNull(discountNodeId)
                   THEN updateId ELSE discountNodeId,
                 products, percentOff)>>

\* A rule as JSON.stringify writes it and the store hands it back: a key whose
\* value is undefined is left out.
RuleJson(rule) ==
  Obj([discountId |-> rule.discountId,
       percentOff |-> JNum(rule.percentOff),
       products |-> JArr([i \in 1..Len(rule.products) |-> JStr(rule.products[i])]),
       minQty |-> JNum(rule.minQty)])

\* Faulty variant: a single rule is written bare, in the legacy shape.
MetafieldValueBare(updatedRules) ==
  IF Len(updatedRules) = 1 THEN RuleJson(updatedRules[1])
  ELSE Obj([rules |-> JArr([i \in 1..Len(updatedRules) |-> RuleJson(updatedRules[i])])])

\* metafieldValue = JSON.stringify({ rules: updatedRules }), as the metafield's
\* jsonValue once it is stored
MetafieldValue(updatedRules) ==
  Obj([rules |-> JArr([i \in 1..Len(updatedRules) |-> RuleJson(updatedRules[i])])])

(***************************************************************************)
(* Bounds and inputs                                                       *)
(***************************************************************************)
\* Elements of the rules array the store starts with
MaxRules == 2

\* Two admin sessions working on the same shop, one request each
Admins == {"a1", "a2"}

Node1 == "gid://shopify/DiscountNode/1"
Node2 == "gid://shopify/DiscountNode/2"

\* Form fields
Titles == {"", " ", "Buy 2 Get % Off"}
PercentOffFields == {" 10 ", "25", "0", "81", "abc", ""}
ProductFields == {<<>>, <<"P1">>, <<"", "P2">>}

\* params.functionId, params.id
FunctionIds == {Undef, JStr("fn-1")}
RouteIds ==
  {Undef, JStr("1"), JStr("gid%3A%2F%2Fshopify%2FDiscountAutomaticApp%2F2"), JStr("%")}

\* What discountAutomaticAppCreate answers: user errors, no id, or the new id
CreateAnswers == {"userErrors", "noId", Node1, Node2}

\* Elements the rules array of the store can start with: a rule of discount 1,
\* a rule without a usable id whose numbers are texts and whose products hold a
\* non-text entry, and a rule of discount 2 that minQty 1 makes invalid
StoredRules ==
  { Obj([discountId |-> JStr(Node1), percentOff |-> JNum(30),
         products |-> JArr(<<JStr("P1")>>), minQty |-> JNum(2)]),
    Obj([discountId |-> JNum(9), percentOff |-> JStr("15"),
         products |-> JArr(<<JNum(5), JStr("P2")>>), minQty |-> JStr("3")]),
    Obj([discountId |-> JStr(Node2), percentOff |-> JNum(10),
         products |-> JArr(<<JStr("P1")>>), minQty |-> JNum(1)]) }

RECURSIVE SeqsUpTo(_, _)
SeqsUpTo(S, n) ==
  IF n = 0 THEN {<<>>}
  ELSE SeqsUpTo(S, n - 1) \cup
       {Append(q, x) : q \in {r \in SeqsUpTo(S, n - 1) : Len(r) = n - 1}, x \in S}

\* A rule whose discountId is the bare number of discount 1, as a route carries it
RuleOfRouteId ==
  Obj([discountId |-> JStr("1"), percentOff |-> JNum(40),
       products |-> JArr(<<JStr("P1")>>), minQty |-> JNum(2)])

\* What the metafield can hold before the app writes it: nothing, a text, a
\* number, a bare rule (the legacy shape), or an object with a rules array
InitialStores ==
  {Undef, JStr("not json"), JStr(LegacyText), JNum(7),
   Obj([percentOff |-> JNum(20), products |-> JArr(<<JStr("P2")>>), minQty |-> JNum(2)]),
   Obj([rules |-> JArr(<<RuleOfRouteId>>)])}
    \cup {Obj([rules |-> JArr(a)]) : a \in SeqsUpTo(StoredRules, MaxRules)}

(***************************************************************************)
(* State                                                                   *)
(***************************************************************************)
VARIABLES
  store,           \* shop.metafield.jsonValue; undefined while there is no metafield
  pc,              \* where each admin's action is
  req,             \* the action's locals: percentOff, products and the ids
  existingRules,   \* the action's existingRules
  metafieldValue,  \* the action's metafieldValue
  response,        \* the status the action answered with, 0 while it runs
  issued,          \* whether the action sent the discount create/update mutation
  version,         \* writes of the store so far
  readAt,          \* the version each action read
  stale,           \* whether some write went out on top of an outdated read
  upserted,        \* the discount ids of the rules written so far
  shown,           \* the rule the edit loader matched and showed, if any
  cart,            \* the lines of the last cart the function evaluated
  result,          \* the function's result for it
  parsed,          \* what the three rule-set parsers last made of the store
  posted           \* the request an admin posts, when it is fixed beforehand

adminVars == <<pc, req, existingRules, metafieldValue, response, issued,
               version, readAt, stale, upserted, shown>>
fnVars == <<cart, result, parsed, posted>>
vars == <<store, adminVars, fnVars>>

NoReq == [route |-> "none", percentOff |-> 0, products |-> <<>>,
          discountId |-> Undef, discountNodeId |-> Undef, updateId |-> Undef,
          paramsId |-> Undef]
NotShown == NoRule
NoResult == [ran |-> FALSE, raised |-> FALSE, operations |-> <<>>]
NotParsed == [ran |-> FALSE, fn |-> Returned(<<>>), create |-> Returned(<<>>),
              edit |-> Returned(<<>>)]
NotPosted == [title |-> "", percentOff |-> "", products |-> <<>>,
              functionId |-> Undef, id |-> Undef]

AdminInit ==
  /\ pc = [p \in Admins |-> "idle"]
  /\ req = [p \in Admins |-> NoReq]
  /\ existingRules = [p \in Admins |-> <<>>]
  /\ metafieldValue = [p \in Admins |-> Undef]
  /\ response = [p \in Admins |-> 0]
  /\ issued = [p \in Admins |-> FALSE]
  /\ version = 0
  /\ readAt = [p \in Admins |-> 0]
  /\ stale = FALSE
  /\ upserted = {}
  /\ shown = [p \in Admins |-> NotShown]

Init ==
  /\ store \in InitialStores
  /\ AdminInit
  /\ cart = <<>>
  /\ result = NoResult
  /\ parsed = NotParsed
  /\ posted = NotPosted

\* The action answers with an error: its locals are gone with it.
Fail(p, status) ==
  /\ pc' = [pc EXCEPT ![p] = "done"]
  /\ response' = [response EXCEPT ![p] = status]
  /\ req' = [req EXCEPT ![p] = [NoReq EXCEPT !.route = req[p].route]]
  /\ existingRules' = [existingRules EXCEPT ![p] = <<>>]
  /\ metafieldValue' = [metafieldValue EXCEPT ![p] = Undef]
  /\ readAt' = [readAt EXCEPT ![p] = 0]

\* The form checks of both actions (lines 167-184, 689-706): whether an error
\* is pushed, and the percentOff and products the action goes on with.
CheckForm(title, percentOffRaw, products) ==
  LET percentOff == StringToNumber(Trim(percentOffRaw)) IN
  IF \/ Trim(title) = ""
     \/ ~IsFinite(percentOff)
     \/ Len(products) = 0
    THEN [errors |-> TRUE, percentOff |-> 0, products |-> <<>>]
  ELSE IF percentOff.fin < 1 \/ percentOff.fin > 80
    THEN [errors |-> TRUE, percentOff |-> 0, products |-> <<>>]
  ELSE [errors |-> FALSE, percentOff |-> percentOff.fin, products |-> products]

\* The forms an admin can post, checked
CheckedForms ==
  {CheckForm(title, percentOffRaw, products) :
     title \in Titles, percentOffRaw \in PercentOffFields, products \in ProductFields}

\* The route ids an edit can carry, normalized
NormalizedRouteIds ==
  {[paramsId |-> id,
    thrown |-> NormalizeDiscountIds(id).thrown,
    discountNodeId |-> NormalizeDiscountIds(id).discountNodeId,
    updateId |-> NormalizeDiscountIds(id).updateId] : id \in RouteIds}

(***************************************************************************)
(* The create action.  Its awaits are the steps; creating the discount     *)
(* touches no state another action reads, so it is one step with the form  *)
(* checks before it.                                                       *)
(***************************************************************************)
\* Lines 163-248: read the form, validate (400 on any error), create the
\* discount (400 on user errors, 500 when no id comes back).
CreateSubmitOf(p, form, functionId, answer) ==
  /\ pc[p] = "idle"
  /\ IF form.errors \/ Falsy(functionId)
       THEN /\ pc' = [pc EXCEPT ![p] = "done"]
            /\ response' = [response EXCEPT ![p] = 400]
            /\ req' = [req EXCEPT ![p] = [NoReq EXCEPT !.route = "create"]]
            /\ UNCHANGED issued
     ELSE IF answer \in {"userErrors", "noId"}
       THEN /\ pc' = [pc EXCEPT ![p] = "done"]
            /\ response' = [response EXCEPT ![p] = IF answer = "noId" THEN 500 ELSE 400]
            /\ req' = [req EXCEPT ![p] = [NoReq EXCEPT !.route = "create"]]
            /\ issued' = [issued EXCEPT ![p] = TRUE]
     ELSE /\ pc' = [pc EXCEPT ![p] = "createRead"]
          /\ req' = [req EXCEPT ![p] = [NoReq EXCEPT !.route = "create",
                                                     !.percentOff = form.percentOff,
                                                     !.products = form.products,
                                                     !.discountId = JStr(answer)]]
          /\ issued' = [issued EXCEPT ![p] = TRUE]
          /\ UNCHANGED response
  /\ UNCHANGED <<store, existingRules, metafieldValue, version, readAt, stale, upserted,
                 shown, fnVars>>

\* The create action on any form and route an admin can post
CreateSubmit(p) ==
  \E form \in CheckedForms, functionId \in FunctionIds, answer \in CreateAnswers :
    CreateSubmitOf(p, form, functionId, answer)

\* Lines 250-262: read the shop and parse its rules; no shop id answers 500.
CreateRead(p) ==
  /\ pc[p] = "createRead"
  /\ \E shopId \in BOOLEAN :
       IF CreateParseRules(store).raised \/ ~shopId
         THEN Fail(p, 500)
         ELSE /\ existingRules' = [existingRules EXCEPT ![p] = CreateParseRules(store).rules]
              /\ readAt' = [readAt EXCEPT ![p] = version]
              /\ pc' = [pc EXCEPT ![p] = "createWrite"]
              /\ UNCHANGED <<req, metafieldValue, response>>
  /\ UNCHANGED <<store, issued, version, stale, upserted, shown, fnVars>>

\* Lines 264-310: merge the new rule, write the metafield, redirect; user errors
\* of metafieldsSet answer 400 and leave the store as it was.
CreateWrite(p) ==
  /\ pc[p] = "createWrite"
  /\ \E userErrors \in BOOLEAN :
       LET value == MetafieldValue(CreateUpdatedRules(existingRules[p], req[p].discountId,
                                                      req[p].products, req[p].percentOff))
       IN  IF userErrors
             THEN Fail(p, 400) /\ UNCHANGED <<store, version, stale, upserted>>
             ELSE /\ metafieldValue' = [metafieldValue EXCEPT ![p] = value]
                  /\ store' = value
                  /\ version' = version + 1
                  /\ stale' = (stale \/ readAt[p] < version)
                  /\ upserted' = upserted \cup {req[p].discountId}
                  /\ pc' = [pc EXCEPT ![p] = "done"]
                  /\ response' = [response EXCEPT ![p] = 302]
                  /\ UNCHANGED <<req, existingRules, readAt>>
  /\ UNCHANGED <<issued, shown, fnVars>>

(***************************************************************************)
(* The edit action.  Updating the discount's title touches no state        *)
(* another action reads, so it is one step with the write after it.        *)
(***************************************************************************)
\* The edit loader (lines 619-683): no id in the route, or none left once
\* normalized, answers 400; otherwise the page shows the rule matched in the
\* rules the store holds, for the form to be posted from.  An id that cannot
\* be decoded, or rules that cannot be parsed, end it with the exception.
EditLoader(p) ==
  /\ pc[p] = "idle"
  /\ \E ids \in NormalizedRouteIds :
       IF Falsy(ids.paramsId) \/ ids.thrown \/ Falsy(ids.discountNodeId)
            \/ EditParseRules(store).raised
         THEN /\ pc' = [pc EXCEPT ![p] = "done"]
              /\ response' = [response EXCEPT ![p] =
                                IF Falsy(ids.paramsId) THEN 400
                                ELSE IF ids.thrown THEN 500
                                ELSE IF Falsy(ids.discountNodeId) THEN 400
                                ELSE 500]
              /\ req' = [req EXCEPT ![p] = [NoReq EXCEPT !.route = "load"]]
              /\ UNCHANGED shown
         ELSE /\ pc' = [pc EXCEPT ![p] = "editForm"]
              /\ req' = [req EXCEPT ![p] = [NoReq EXCEPT !.route = "load",
                                                         !.paramsId = ids.paramsId]]
              /\ shown' = [shown EXCEPT ![p] =
                             MatchedRule(EditParseRules(store).rules,
                                         ids.paramsId, ids.discountNodeId)]
              /\ UNCHANGED response
  /\ UNCHANGED <<store, existingRules, metafieldValue, issued, version, readAt, stale,
                 upserted, fnVars>>

\* Lines 685-725: read the form, validate, normalize the route's id (the id of
\* the page the form is posted from, when a page was loaded); an id that
\* cannot be decoded ends the action with the exception (500).
EditSubmitOf(p, form, ids) ==
  /\ pc[p] \in {"idle", "editForm"}
  /\ pc[p] = "editForm" => ids.paramsId = req[p].paramsId
  /\ IF ids.thrown \/ form.errors \/ Falsy(ids.updateId)
       THEN /\ pc' = [pc EXCEPT ![p] = "done"]
            /\ response' = [response EXCEPT ![p] = IF ids.thrown THEN 500 ELSE 400]
            /\ req' = [req EXCEPT ![p] = [NoReq EXCEPT !.route = "edit"]]
            /\ shown' = [shown EXCEPT ![p] = NotShown]
       ELSE /\ pc' = [pc EXCEPT ![p] = "editRead"]
            /\ req' = [req EXCEPT ![p] = [NoReq EXCEPT !.route = "edit",
                                                       !.percentOff = form.percentOff,
                                                       !.products = form.products,
                                                       !.discountNodeId = ids.discountNodeId,
                                                       !.updateId = ids.updateId,
                                                       !.paramsId = ids.paramsId]]
            /\ UNCHANGED <<response, shown>>
  /\ UNCHANGED <<store, existingRules, metafieldValue, issued, version, readAt, stale,
                 upserted, fnVars>>

\* The edit action on any form and route an admin can post
EditSubmit(p) ==
  \E form \in CheckedForms, ids \in NormalizedRouteIds : EditSubmitOf(p, form, ids)

\* Lines 727-739: read the shop and parse its rules; no shop id answers 500.
EditRead(p) ==
  /\ pc[p] = "editRead"
  /\ \E shopId \in BOOLEAN :
       IF EditParseRules(store).raised \/ ~shopId
         THEN Fail(p, 500)
         ELSE /\ existingRules' = [existingRules EXCEPT ![p] = EditParseRules(store).rules]
              /\ readAt' = [readAt EXCEPT ![p] = version]
              /\ pc' = [pc EXCEPT ![p] = "editWrite"]
              /\ UNCHANGED <<req, metafieldValue, response>>
  /\ UNCHANGED <<store, issued, version, stale, upserted, shown, fnVars>>

\* Lines 741-818: update the discount's title (400 on user errors), merge the
\* edited rule, write the metafield; user errors of metafieldsSet answer 400
\* and leave the store as it was.
EditWrite(p) ==
  /\ pc[p] = "editWrite"
  /\ issued' = [issued EXCEPT ![p] = TRUE]
  /\ \E updateErrors \in BOOLEAN, userErrors \in BOOLEAN :
       LET value == MetafieldValue(EditUpdatedRules(existingRules[p], req[p].discountNodeId,
                                                    req[p].updateId, req[p].products,
                                                    req[p].percentOff))
       IN  IF updateErrors \/ userErrors
             THEN Fail(p, 400) /\ UNCHANGED <<store, version, stale, upserted>>
             ELSE /\ metafieldValue' = [metafieldValue EXCEPT ![p] = value]
                  /\ store' = value
                  /\ version' = version + 1
                  /\ stale' = (stale \/ readAt[p] < version)
                  /\ upserted' = upserted \cup {req[p].discountNodeId}
                  /\ pc' = [pc EXCEPT ![p] = "done"]
                  /\ response' = [response EXCEPT ![p] = 200]
                  /\ UNCHANGED <<req, existingRules, readAt>>
  /\ UNCHANGED <<shown, fnVars>>

Next ==
  \E p \in Admins :
    \/ CreateSubmit(p)
    \/ CreateRead(p)
    \/ CreateWrite(p)
    \/ EditLoader(p)
    \/ EditSubmit(p)
    \/ EditRead(p)
    \/ EditWrite(p)

Spec == Init /\ [][Next]_vars

(***************************************************************************)
(* One posted request: its form fields and route parameters are fixed      *)
(* first, and the create or the edit action then runs on them.             *)
(***************************************************************************)
PostedRequests ==
  [title : Titles, percentOff : PercentOffFields, products : ProductFields,
   functionId : FunctionIds, id : RouteIds]

\* What the metafield holds when the request arrives
PostedStores ==
  {Undef,
   Obj([rules |-> JArr(<<Obj([discountId |-> JStr(Node1), percentOff |-> JNum(30),
                              products |-> JArr(<<JStr("P1")>>), minQty |-> JNum(2)])>>)])}

InitPosted ==
  /\ store \in PostedStores
  /\ AdminInit
  /\ cart = <<>>
  /\ result = NoResult
  /\ parsed = NotParsed
  /\ posted \in PostedRequests

\* The create action on the posted request
CreatePosted(p) ==
  \E answer \in CreateAnswers :
    CreateSubmitOf(p, CheckForm(posted.title, posted.percentOff, posted.products),
                   posted.functionId, answer)

\* The edit action on the posted request
EditPosted(p) ==
  \E ids \in NormalizedRouteIds :
    /\ ids.paramsId = posted.id
    /\ EditSubmitOf(p, CheckForm(posted.title, posted.percentOff, posted.products), ids)

NextPosted ==
  \E p \in Admins :
    \/ CreatePosted(p)
    \/ CreateRead(p)
    \/ CreateWrite(p)
    \/ EditPosted(p)
    \/ EditRead(p)
    \/ EditWrite(p)

SpecPosted == InitPosted /\ [][NextPosted]_vars

(***************************************************************************)
(* Cart evaluation: the function runs on whatever the metafield holds.     *)
(***************************************************************************)
\* Lines of one cart
MaxLines == 2

Quantities == {1, 2, 3}
Merchandises == {[product |-> "P1"], [product |-> "P2"], [custom |-> TRUE]}

\* Cart line ids are unique within a cart.
LineId(i) == "gid://shopify/CartLine/" \o SubSeq("123456789", i, i)

RECURSIVE CartsOf(_)
CartsOf(n) ==
  IF n = 0 THEN {<<>>}
  ELSE {Append(c, [id |-> LineId(n), quantity |-> q, merchandise |-> m]) :
          c \in CartsOf(n - 1), q \in Quantities, m \in Merchandises}

Carts == UNION {CartsOf(n) : n \in 0..MaxLines}

\* Rule objects a stored value can hold, alone or in a rules array
RuleA == Obj([discountId |-> JStr(Node1), percentOff |-> JNum(10),
              products |-> JArr(<<JStr("P1")>>), minQty |-> JNum(2)])
RuleB == Obj([percentOff |-> JNum(25), products |-> JArr(<<JStr("P1")>>),
              minQty |-> JNum(3)])
RuleTexts == Obj([discountId |-> JNum(9), percentOff |-> JStr("15"),
                  products |-> JArr(<<JNum(5), JStr(""), JStr("P2")>>),
                  minQty |-> JStr("2")])
RuleHigh == Obj([percentOff |-> JNum(81), products |-> JArr(<<JStr("P1")>>),
                 minQty |-> JNum(2)])
RuleLow == Obj([percentOff |-> JNum(40), products |-> JArr(<<JStr("P1")>>),
                minQty |-> JNum(1)])
\* The spec's legacy example: a bare rule without an id
LegacyRule == Obj([percentOff |-> JNum(10), products |-> JArr(<<JStr("P1")>>),
                   minQty |-> JNum(2)])

ArrayRules == {RuleA, RuleB, RuleTexts, RuleHigh, RuleLow}

SingleRules ==
  { LegacyRule,
    Obj([percentOff |-> JNum(40), products |-> JArr(<<JStr("P1")>>), minQty |-> JNum(0)]),
    Obj([percentOff |-> JNum(40), products |-> JArr(<<JStr("P1")>>), minQty |-> JNum(-3)]),
    Obj([percentOff |-> JNum(40), products |-> JArr(<<JStr("P1")>>), minQty |-> JStr("")]),
    Obj([percentOff |-> JNum(40), products |-> JArr(<<JStr("P1")>>), minQty |-> JStr("two")]),
    Obj([percentOff |-> JNum(40), products |-> JArr(<<JStr("P1")>>), minQty |-> JBool(TRUE)]),
    Obj([percentOff |-> JNum(40), products |-> JArr(<<JStr("P1")>>)]),
    Obj([percentOff |-> JNum(0), products |-> JArr(<<JStr("P1")>>), minQty |-> JNum(2)]),
    Obj([percentOff |-> JStr("Infinity"), products |-> JArr(<<JStr("P1")>>),
         minQty |-> JNum(2)]),
    Obj([percentOff |-> Null, products |-> JArr(<<JStr("P1")>>), minQty |-> JNum(2)]),
    Obj([percentOff |-> JNum(50), products |-> JStr("P1"), minQty |-> JNum(2)]),
    Obj([percentOff |-> JNum(50), products |-> JArr(<<JStr(""), JNum(1)>>),
         minQty |-> JNum(2)]),
    Obj([percentOff |-> JNum(50), products |-> JArr(<<>>), minQty |-> JNum(2)]),
    Obj([rules |-> JNum(5), percentOff |-> JNum(50), products |-> JArr(<<JStr("P2")>>),
         minQty |-> JNum(2)]),
    Obj([discountId |-> JStr("")]) }

\* What the metafield can hold when a cart is evaluated
StoredValues ==
  {Undef, Null, JBool(FALSE), JNum(0), JNum(7), JStr(""), JStr("not json"), JStr("null"),
   JStr("7"), JStr("[]"), JStr("\"rules\""), JStr(LegacyText), JStr(RulesText),
   JArr(<<>>), JArr(<<RuleA>>)}
    \cup ArrayRules \cup SingleRules
    \cup {Obj([rules |-> JArr(<<r>>)]) : r \in SingleRules \cup {Null, JNum(3)}}
    \cup {Obj([rules |-> JArr(a)]) : a \in SeqsUpTo(ArrayRules, MaxRules)}

\* The platform runs the function on a cart.
InitFn ==
  /\ store \in StoredValues
  /\ AdminInit
  /\ cart \in Carts
  /\ result = NoResult
  /\ parsed = NotParsed
  /\ posted = NotPosted

Evaluate ==
  /\ result' = CartLinesDiscountsGenerateRun(store, cart)
  /\ UNCHANGED <<store, adminVars, cart, parsed, posted>>

NextFn == Evaluate

SpecFn == InitFn /\ [][NextFn]_vars

\* The function and the admin routes parse the stored value.
InitParse ==
  /\ store \in StoredValues
  /\ AdminInit
  /\ cart = <<>>
  /\ result = NoResult
  /\ parsed = NotParsed
  /\ posted = NotPosted

ParseStored ==
  /\ parsed' = [ran |-> TRUE, fn |-> FnParseDiscountRules(store),
                create |-> CreateParseRules(store), edit |-> EditParseRules(store)]
  /\ UNCHANGED <<store, adminVars, cart, result, posted>>

NextParse == ParseStored

SpecParse == InitParse /\ [][NextParse]_vars

(***************************************************************************)
(* Properties of the admin actions (specification Spec)                    *)
(***************************************************************************)
\* The action wrote the metafield and answered with a redirect or a success.
Succeeded(p) == pc[p] = "done" /\ response[p] \in {200, 302}

\* The discountId of the rule the action upserts
UpsertedId(p) ==
  IF req[p].route = "create" THEN req[p].discountId ELSE req[p].discountNodeId

\* The rules array the action wrote
Written(p) == metafieldValue[p].obj.rules.arr

\* The rule the action upserts, as it is written
UpsertedJson(p) == RuleJson(NewRule(UpsertedId(p), req[p].products, req[p].percentOff))

JsonOf(rules) == [i \in 1..Len(rules) |-> RuleJson(rules[i])]

CountWithId(rules, id) == Cardinality({i \in 1..Len(rules) : rules[i].discountId = id})

\* Whether a stored value has a rule of the discount in its rules array
HasRuleOf(value, id) ==
  /\ IsObj(value)
  /\ IsArr(value.obj.rules)
  /\ \E i \in 1..Len(value.obj.rules.arr) : Prop(value.obj.rules.arr[i], "discountId") = id

\* C1: a create or an edit that wrote the store wrote every existing rule whose
\* discountId differs from the upserted one (a rule without an id included),
\* with the same field values and in the same relative order.
C1_OtherRulesUntouched ==
  \A p \in Admins :
    Succeeded(p) =>
      SelectSeq(Written(p), LAMBDA j : Prop(j, "discountId") # UpsertedId(p))
        = JsonOf(SelectSeq(existingRules[p], LAMBDA r : r.discountId # UpsertedId(p)))

\* C1's case: a create and an edit both wrote on top of at least two rules of
\* other discounts, and the edit's existing set also held the edited discount.
C1_Witness ==
  \E p, q \in Admins :
    /\ Succeeded(p) /\ req[p].route = "create"
    /\ Succeeded(q) /\ req[q].route = "edit"
    /\ Len(SelectSeq(existingRules[p], LAMBDA r : r.discountId # UpsertedId(p))) >= 2
    /\ Len(SelectSeq(existingRules[q], LAMBDA r : r.discountId # UpsertedId(q))) >= 2
    /\ CountWithId(existingRules[q], UpsertedId(q)) >= 1

\* C3: as long as no write went out on top of an outdated read, the store
\* holds a rule for every discount upserted so far: an edit is lost only when
\* the read-reconcile-write cycles of two actions overlap.
C3_LostOnlyWhenOverlapping ==
  ~stale => \A id \in upserted : HasRuleOf(store, id)

\* C3's case: both admins' actions succeeded, on different discounts, and the
\* store lacks the rule one of them wrote.
C3_Witness ==
  \E p, q \in Admins :
    /\ p # q
    /\ Succeeded(p) /\ Succeeded(q)
    /\ UpsertedId(p) # UpsertedId(q)
    /\ ~HasRuleOf(store, UpsertedId(p))
    /\ HasRuleOf(store, UpsertedId(q))

\* The existing rules an action of q's route makes of a stored value
ParsedBy(q, value) ==
  IF req[q].route = "create" THEN CreateParseRules(value).rules
  ELSE EditParseRules(value).rules

\* C4: when an action upserts the rule another action has just written (same
\* discountId, products and percentOff) on top of what that action wrote, it
\* writes the same rule set again.
C4_Idempotent ==
  \A p, q \in Admins :
    ( /\ p # q
      /\ Succeeded(p) /\ Succeeded(q)
      /\ UpsertedJson(p) = UpsertedJson(q)
      /\ existingRules[q] = ParsedBy(q, metafieldValue[p]) )
      => metafieldValue[q] = metafieldValue[p]

\* C4's case: the second of two equal upserts read what the first wrote, which
\* held other rules too.
C4_Witness ==
  \E p, q \in Admins :
    /\ p # q
    /\ Succeeded(p) /\ Succeeded(q)
    /\ req[q].route = "create"
    /\ UpsertedJson(p) = UpsertedJson(q)
    /\ readAt[q] = 1 /\ version = 2
    /\ existingRules[q] = ParsedBy(q, metafieldValue[p])
    /\ Len(existingRules[q]) >= 2

\* C5 as stated: an upsert whose discountId an existing rule carries writes as
\* many rules as it read, the upserted rule among them; an upsert whose
\* discountId is new writes one rule more.
C5_SameLengthOrOneMore ==
  \A p \in Admins :
    Succeeded(p) =>
      IF CountWithId(existingRules[p], UpsertedId(p)) >= 1
        THEN /\ Len(Written(p)) = Len(existingRules[p])
             /\ \E i \in 1..Len(Written(p)) : Written(p)[i] = UpsertedJson(p)
        ELSE Len(Written(p)) = Len(existingRules[p]) + 1

\* C5, amended: an upsert writes existing.length - k + 1 rules, k being the
\* number of existing rules that carry the upserted discountId; the upserted
\* rule is the last one and the only one with that discountId.
C5_LengthLessMatchesPlusOne ==
  \A p \in Admins :
    Succeeded(p) =>
      /\ Len(Written(p))
           = Len(existingRules[p]) - CountWithId(existingRules[p], UpsertedId(p)) + 1
      /\ Written(p)[Len(Written(p))] = UpsertedJson(p)
      /\ \A i \in 1..(Len(Written(p)) - 1) :
           Prop(Written(p)[i], "discountId") # UpsertedId(p)

\* C5's cases: an upsert replaced the one existing rule of its discount, whose
\* fields differed, and kept the length; another one found no rule of its
\* discount and wrote one rule more.
C5_Witness ==
  \E p, q \in Admins :
    /\ Succeeded(p)
    /\ CountWithId(existingRules[p], UpsertedId(p)) = 1
    /\ Len(existingRules[p]) >= 2
    /\ Len(Written(p)) = Len(existingRules[p])
    /\ \A i \in 1..Len(existingRules[p]) : RuleJson(existingRules[p][i]) # UpsertedJson(p)
    /\ Succeeded(q)
    /\ CountWithId(existingRules[q], UpsertedId(q)) = 0
    /\ Len(Written(q)) = Len(existingRules[q]) + 1

\* C6: a create or an edit that wrote the store wrote every existing rule that
\* has no discountId, unchanged.
C6_UnidentifiedRulesKept ==
  \A p \in Admins :
    Succeeded(p) =>
      \A i \in 1..Len(existingRules[p]) :
        IsUndef(existingRules[p][i].discountId) =>
          Cardinality({j \in 1..Len(Written(p)) : Written(p)[j] = RuleJson(existingRules[p][i])})
            = Cardinality({j \in 1..Len(existingRules[p]) :
                             existingRules[p][j] = existingRules[p][i]})

\* C6's case: an edit removed a rule of its discount from an existing set that
\* also held a rule without an id.
C6_Witness ==
  \E p \in Admins :
    /\ Succeeded(p) /\ req[p].route = "edit"
    /\ CountWithId(existingRules[p], UpsertedId(p)) >= 1
    /\ CountWithId(existingRules[p], Undef) >= 1

\* C7: once an action has written it, the store is an object whose rules key
\* holds an array and that carries no field of a rule itself; so is every
\* value an action sent.
Canonical(value) ==
  /\ IsObj(value)
  /\ IsArr(value.obj.rules)
  /\ \A k \in Keys \ {"rules"} : IsUndef(value.obj[k])

C7_WritesAreCanonical ==
  /\ version > 0 => Canonical(store)
  /\ \A p \in Admins : Succeeded(p) => Canonical(metafieldValue[p])

\* C7's case: an action wrote on top of the legacy bare rule the store held,
\* which its existing rules show (20% on P2, no id), and wrote it inside the
\* rules array.
C7_Witness ==
  \E p \in Admins :
    /\ Succeeded(p)
    /\ version = 1
    /\ existingRules[p] = <<[discountId |-> Undef, percentOff |-> 20,
                             products |-> <<"P2">>, minQty |-> 2]>>
    /\ Len(store.obj.rules.arr) = 2

(***************************************************************************)
(* Properties of the function (specification SpecFn)                       *)
(***************************************************************************)
\* The candidates of the function's result
Candidates ==
  IF result.operations = <<>> THEN <<>> ELSE result.operations[1].candidates

\* The rule set the store holds, as the admin routes read it
StoredRuleSet == CreateParseRules(store).rules

\* The rules of the set that apply to a line: minQty reached, the line's
\* product among the products, percentOff within [1,80]
Eligible(line) ==
  LET rules == StoredRuleSet IN
  {k \in 1..Len(rules) :
     /\ rules[k].minQty <= line.quantity
     /\ \E i \in 1..Len(rules[k].products) :
          rules[k].products[i] = line.merchandise.product
     /\ rules[k].percentOff >= 1
     /\ rules[k].percentOff <= 80}

\* C2: a line that references a product is a candidate's target exactly when
\* some rule is eligible for it, and then of one candidate, whose percentage
\* is the greatest percentOff of the eligible rules.
C2_MaxOfEligibleRules ==
  result.ran =>
    /\ ~result.raised
    /\ \A i \in 1..Len(cart) :
         HasProduct(cart[i]) =>
           LET emitted == {c \in 1..Len(Candidates) : Candidates[c].targets = <<cart[i].id>>}
               eligible == Eligible(cart[i])
               rules == StoredRuleSet
           IN  IF eligible = {} THEN emitted = {}
               ELSE /\ Cardinality(emitted) = 1
                    /\ \A c \in emitted :
                         /\ \E k \in eligible :
                              Candidates[c].percentage = rules[k].percentOff
                         /\ \A k \in eligible :
                              Candidates[c].percentage >= rules[k].percentOff

\* C2's case, the spec's example with the greater rule first: rules B (25% on
\* P1 from 3) and A (10% on P1 from 2), a line of 3 and a line of 2.
C2_Witness ==
  /\ result.ran
  /\ store = Obj([rules |-> JArr(<<RuleB, RuleA>>)])
  /\ cart = <<[id |-> LineId(1), quantity |-> 3, merchandise |-> [product |-> "P1"]],
              [id |-> LineId(2), quantity |-> 2, merchandise |-> [product |-> "P1"]]>>
  /\ Candidates = <<[targets |-> <<LineId(1)>>, percentage |-> 25],
                    [targets |-> <<LineId(2)>>, percentage |-> 10]>>

\* C8: no candidate targets a line whose quantity is below 2, whatever the
\* store holds.
C8_NoDiscountBelowTwo ==
  result.ran =>
    \A c \in 1..Len(Candidates) :
      \A i \in 1..Len(cart) :
        cart[i].id \in {Candidates[c].targets[t] : t \in 1..Len(Candidates[c].targets)}
          => cart[i].quantity >= 2

\* C8's case: the store holds a rule with minQty 1 on P1 beside a valid one,
\* the cart a line of 1 and a line of 2 of P1; only the second is a target.
C8_Witness ==
  /\ result.ran
  /\ store = Obj([rules |-> JArr(<<RuleLow, RuleA>>)])
  /\ cart = <<[id |-> LineId(1), quantity |-> 1, merchandise |-> [product |-> "P1"]],
              [id |-> LineId(2), quantity |-> 2, merchandise |-> [product |-> "P1"]]>>
  /\ Candidates = <<[targets |-> <<LineId(2)>>, percentage |-> 10]>>

(***************************************************************************)
(* Properties of the parsers (specification SpecParse)                     *)
(***************************************************************************)
\* The stored value once a text is decoded; undefined when it does not decode
Decoded(value) ==
  IF IsStr(value) THEN (IF JSONParse(value.str).ok THEN JSONParse(value.str).v ELSE Undef)
  ELSE value

\* C9: the three rule-set parsers return a sequence for every stored value and
\* raise nothing; the sequence is empty when the value is not an object (a
\* text that does not decode or decodes to something else, a number, null, an
\* array) and when it is an object without a rule's fields.
C9_ParsersAreTotal ==
  parsed.ran =>
    \A r \in {parsed.fn, parsed.create, parsed.edit} :
      /\ ~r.raised
      /\ ~IsObj(Decoded(store)) => r.rules = <<>>
      /\ Decoded(store) = Obj([discountId |-> JStr("")]) => r.rules = <<>>

\* C9's case: the rules array holds null, whose typeof is "object".
C9_Witness ==
  /\ parsed.ran
  /\ store = Obj([rules |-> JArr(<<Null>>)])
  /\ parsed.create = Returned(<<>>)

\* C10: a bare rule object, without a rules key, parses to what the same
\* object inside a rules array parses to: one rule when the object is valid,
\* none otherwise.
C10_LegacyAsWrapped ==
  (parsed.ran /\ IsObj(store) /\ IsUndef(Prop(store, "rules"))) =>
    LET wrapped == Obj([rules |-> JArr(<<store>>)]) IN
    /\ parsed.fn = FnParseDiscountRules(wrapped)
    /\ parsed.create = CreateParseRules(wrapped)
    /\ parsed.edit = EditParseRules(wrapped)
    /\ Len(parsed.fn.rules) = (IF IsRule(FnParseRule(store)) THEN 1 ELSE 0)
    /\ Len(parsed.create.rules) = (IF IsRule(CreateParseRule(store)) THEN 1 ELSE 0)
    /\ Len(parsed.edit.rules) = (IF IsRule(EditParseRule(store)) THEN 1 ELSE 0)

\* C10's case: the spec's legacy example, which every parser takes as one rule.
C10_Witness ==
  /\ parsed.ran
  /\ store = LegacyRule
  /\ parsed.fn.rules = <<[percentOff |-> 10, products |-> <<"P1">>, minQty |-> 2]>>
  /\ Len(parsed.create.rules) = 1
  /\ Len(parsed.edit.rules) = 1

\* What each parser makes of the elements of a rules array, every element taken
\* alone in an array of its own, one after the other
RECURSIVE EachAlone(_)
EachAlone(elements) ==
  IF elements = <<>> THEN [fn |-> <<>>, create |-> <<>>, edit |-> <<>>]
  ELSE LET alone == Obj([rules |-> JArr(<<Head(elements)>>)])
           rest == EachAlone(Tail(elements))
       IN  [fn |-> FnParseDiscountRules(alone).rules \o rest.fn,
            create |-> CreateParseRules(alone).rules \o rest.create,
            edit |-> EditParseRules(alone).rules \o rest.edit]

\* C11: when the stored value holds a rules array, each parser raises nothing
\* and returns what the elements give one by one, each parsed alone, in the
\* order of the array: an element that fails validation gives nothing and takes
\* no other element with it.
C11_ElementsValidatedAlone ==
  (parsed.ran /\ IsObj(Decoded(store)) /\ IsArr(Prop(Decoded(store), "rules"))) =>
    LET elements == Prop(Decoded(store), "rules").arr IN
    /\ parsed.fn = Returned(EachAlone(elements).fn)
    /\ parsed.create = Returned(EachAlone(elements).create)
    /\ parsed.edit = Returned(EachAlone(elements).edit)
    /\ Len(parsed.fn.rules) <= Len(elements)
    /\ Len(parsed.create.rules) <= Len(elements)

\* C11's case: a rule that minQty 1 makes invalid comes first in the array and
\* a valid rule after it; every parser returns the valid rule alone.
C11_Witness ==
  /\ parsed.ran
  /\ store = Obj([rules |-> JArr(<<RuleLow, RuleA>>)])
  /\ parsed.fn.rules = <<[percentOff |-> 10, products |-> <<"P1">>, minQty |-> 2]>>
  /\ parsed.create.rules = <<[discountId |-> JStr(Node1), percentOff |-> 10,
                              products |-> <<"P1">>, minQty |-> 2]>>
  /\ parsed.edit.rules = parsed.create.rules

\* The one rule object the stored value holds: the only element of its rules
\* array, or the value itself in the legacy shape; undefined otherwise
SoleElement ==
  LET d == Decoded(store) IN
  IF ~IsObj(d) THEN Undef
  ELSE IF ~IsArr(Prop(d, "rules")) THEN d
  ELSE IF Len(Prop(d, "rules").arr) = 1 THEN Prop(d, "rules").arr[1]
  ELSE Undef

\* percentOff and minQty pass every parser: percentOff within [1,80], minQty
\* at least 2, as numbers or as their texts
OtherFieldsValid(e) ==
  /\ IsObj(e)
  /\ IsFinite(CoerceNumber(Prop(e, "percentOff")))
  /\ CoerceNumber(Prop(e, "percentOff")).fin >= 1
  /\ CoerceNumber(Prop(e, "percentOff")).fin <= 80
  /\ IsFinite(CoerceNumber(Prop(e, "minQty")))
  /\ CoerceNumber(Prop(e, "minQty")).fin >= 2

\* The entries of a products array that are non-empty texts, in order
ValidEntries(a) ==
  LET kept == SelectSeq(a, LAMBDA v : IsStr(v) /\ v.str # "") IN
  [i \in 1..Len(kept) |-> kept[i].str]

\* C12 as stated: with its other fields valid, a rule whose products is not an
\* array is excluded by every parser, and a rule whose products is an array is
\* accepted, by every parser, exactly when a valid entry remains, with the
\* valid entries as its products.
C12_AcceptedIffEntryRemains ==
  (parsed.ran /\ OtherFieldsValid(SoleElement)) =>
    \A r \in {parsed.fn, parsed.create, parsed.edit} :
      IF ~IsArr(Prop(SoleElement, "products")) THEN r = Returned(<<>>)
      ELSE LET entries == ValidEntries(Prop(SoleElement, "products").arr) IN
           /\ ~r.raised
           /\ Len(r.rules) = (IF entries # <<>> THEN 1 ELSE 0)
           /\ \A i \in 1..Len(r.rules) : r.rules[i].products = entries

\* C12, amended: with its other fields valid, a rule whose products is not an
\* array is excluded by every parser; a rule whose products is an array keeps
\* the valid entries only; the function's parser accepts it exactly when a
\* valid entry remains, the admin parsers accept it also when none remains,
\* with an empty products list.
C12_AdminAcceptsNoEntry ==
  (parsed.ran /\ OtherFieldsValid(SoleElement)) =>
    IF ~IsArr(Prop(SoleElement, "products"))
      THEN /\ parsed.fn = Returned(<<>>)
           /\ parsed.create = Returned(<<>>)
           /\ parsed.edit = Returned(<<>>)
    ELSE LET entries == ValidEntries(Prop(SoleElement, "products").arr) IN
         /\ ~parsed.fn.raised /\ ~parsed.create.raised /\ ~parsed.edit.raised
         /\ Len(parsed.fn.rules) = (IF entries # <<>> THEN 1 ELSE 0)
         /\ \A i \in 1..Len(parsed.fn.rules) : parsed.fn.rules[i].products = entries
         /\ Len(parsed.create.rules) = 1
         /\ parsed.create.rules[1].products = entries
         /\ Len(parsed.edit.rules) = 1
         /\ parsed.edit.rules[1].products = entries

\* C12's case: the products array holds an empty text and a number and nothing
\* else; the function's parser excludes the rule, the admin parsers return it
\* with no product.
C12_Witness ==
  /\ parsed.ran
  /\ OtherFieldsValid(SoleElement)
  /\ Prop(SoleElement, "products") = JArr(<<JStr(""), JNum(1)>>)
  /\ parsed.fn.rules = <<>>
  /\ Len(parsed.create.rules) = 1
  /\ parsed.create.rules[1].products = <<>>
  /\ Len(parsed.edit.rules) = 1

(***************************************************************************)
(* More properties of the function (specification SpecFn)                  *)
(***************************************************************************)
\* The lines of the cart that reference a product some rule is eligible for,
\* in cart order
EligibleLines ==
  SelectSeq(cart, LAMBDA line : HasProduct(line) /\ Eligible(line) # {})

\* C13: the result holds no operation when no line is eligible (no rule parsed
\* included), and otherwise one operation with one candidate per eligible line,
\* in cart order, each with that line as its only target and one percentage
\* within [1,80]; a line without a product is no candidate's target.
C13_OneCandidatePerEligibleLine ==
  result.ran =>
    LET lines == EligibleLines IN
    /\ ~result.raised
    /\ Len(result.operations) = (IF lines = <<>> THEN 0 ELSE 1)
    /\ \A o \in 1..Len(result.operations) : result.operations[o].candidates # <<>>
    /\ Len(Candidates) = Len(lines)
    /\ \A c \in 1..Len(Candidates) :
         /\ Candidates[c].targets = <<lines[c].id>>
         /\ Candidates[c].percentage \in 1..80
    /\ \A i \in 1..Len(cart) :
         ~HasProduct(cart[i]) =>
           \A c \in 1..Len(Candidates) : cart[i].id # Candidates[c].targets[1]

\* C13's case: two rules apply to the second line, the first line has no
\* product; the result is one operation with one candidate, for the second
\* line with the greater percentage.
C13_Witness ==
  /\ result.ran
  /\ store = Obj([rules |-> JArr(<<RuleA, RuleB>>)])
  /\ cart = <<[id |-> LineId(1), quantity |-> 3, merchandise |-> [custom |-> TRUE]],
              [id |-> LineId(2), quantity |-> 3, merchandise |-> [product |-> "P1"]]>>
  /\ result.operations =
       <<[selectionStrategy |-> "ALL",
          candidates |-> <<[targets |-> <<LineId(2)>>, percentage |-> 25]>>]>>

(***************************************************************************)
(* More properties of the admin actions (specification Spec)               *)
(***************************************************************************)
\* The rules array the store holds
StoredArray ==
  IF IsObj(store) /\ IsArr(Prop(store, "rules")) THEN Prop(store, "rules").arr ELSE <<>>

\* The elements of the stored array that carry the discountId
StoredOf(id) == SelectSeq(StoredArray, LAMBDA e : Prop(e, "discountId") = id)

\* The actions that wrote a rule of the discount
UpsertsOf(id) == {p \in Admins : Succeeded(p) /\ UpsertedId(p) = id}

\* The most recent of them: while no write went out on top of an outdated
\* read, an action that read version v wrote version v + 1.
LastUpsertOf(id) ==
  CHOOSE p \in UpsertsOf(id) : \A q \in UpsertsOf(id) : readAt[q] <= readAt[p]

\* The rule set the first write started from held no discountId twice.
StartedWithoutDuplicates ==
  \A p \in Admins :
    (Succeeded(p) /\ readAt[p] = 0) =>
      \A i, j \in 1..Len(existingRules[p]) :
        (i # j /\ ~IsUndef(existingRules[p][i].discountId))
          => existingRules[p][i].discountId # existingRules[p][j].discountId

\* Successful actions so far, none of them on top of an outdated read, from a
\* rule set without a duplicate discountId
InSequence == version > 0 /\ ~stale /\ StartedWithoutDuplicates

\* C14 as stated: after successful, non-overlapping actions the store holds at
\* most one rule for each discountId, and for an upserted discount exactly the
\* rule the most recent upsert made: its percentOff and its products.
C14_LastWriteWins ==
  InSequence =>
    /\ \A e \in {StoredArray[i] : i \in 1..Len(StoredArray)} :
         IsStr(Prop(e, "discountId")) => Len(StoredOf(Prop(e, "discountId"))) = 1
    /\ \A id \in upserted :
         /\ Len(StoredOf(id)) = 1
         /\ Prop(StoredOf(id)[1], "percentOff") = JNum(req[LastUpsertOf(id)].percentOff)
         /\ Prop(StoredOf(id)[1], "products")
              = JArr([i \in 1..Len(req[LastUpsertOf(id)].products) |->
                        JStr(req[LastUpsertOf(id)].products[i])])

\* C14, amended: the same, the products compared without their empty entries,
\* which the rule loses when a later action on another discount reads it and
\* writes it back.
C14_LastWriteWinsUpToEmptyIds ==
  InSequence =>
    /\ \A e \in {StoredArray[i] : i \in 1..Len(StoredArray)} :
         IsStr(Prop(e, "discountId")) => Len(StoredOf(Prop(e, "discountId"))) = 1
    /\ \A id \in upserted :
         /\ Len(StoredOf(id)) = 1
         /\ Prop(StoredOf(id)[1], "percentOff") = JNum(req[LastUpsertOf(id)].percentOff)
         /\ IsArr(Prop(StoredOf(id)[1], "products"))
         /\ ValidEntries(Prop(StoredOf(id)[1], "products").arr)
              = SelectSeq(req[LastUpsertOf(id)].products, LAMBDA x : x # "")

\* C14's case: the store held a rule of discount 1; a create wrote discount 1
\* and then an edit of discount 1, with another percentage, read what the
\* create wrote; the store holds the edit's rule for it and no other.
C14_Witness ==
  \E p, q \in Admins :
    /\ InSequence
    /\ Succeeded(p) /\ req[p].route = "create" /\ readAt[p] = 0
    /\ Succeeded(q) /\ req[q].route = "edit" /\ readAt[q] = 1
    /\ UpsertedId(p) = JStr(Node1) /\ UpsertedId(q) = JStr(Node1)
    /\ CountWithId(existingRules[p], JStr(Node1)) = 1
    /\ req[p].percentOff # req[q].percentOff
    /\ req[p].products # req[q].products
    /\ Len(StoredOf(JStr(Node1))) = 1
    /\ Prop(StoredOf(JStr(Node1))[1], "percentOff") = JNum(req[q].percentOff)
    /\ Len(StoredArray) >= 2

\* A successful edit posted from a page whose loader matched a rule, the one
\* it matches in the rules the action read
EditedShownRule(p) ==
  /\ Succeeded(p) /\ req[p].route = "edit"
  /\ IsRule(shown[p])
  /\ shown[p] = MatchedRule(existingRules[p], req[p].paramsId, req[p].discountNodeId)

\* The rules the action wrote before the new one, which it wrote last
WrittenBefore(p) == SubSeq(Written(p), 1, Len(Written(p)) - 1)

\* C15 as stated: after a successful edit the rule the loader matched and
\* showed is not in the stored set any more, which holds the new rule as the
\* only one of the edited discount.
C15_ShownRuleReplaced ==
  \A p \in Admins :
    EditedShownRule(p) =>
      /\ Written(p)[Len(Written(p))] = UpsertedJson(p)
      /\ \A i \in 1..Len(WrittenBefore(p)) :
           /\ WrittenBefore(p)[i] # RuleJson(shown[p])
           /\ Prop(WrittenBefore(p)[i], "discountId") # req[p].discountNodeId

\* C15, amended: after a successful edit the stored set holds the new rule as
\* the only one whose discountId is the normalized DiscountNode id, so a shown
\* rule that carries this id is gone; a shown rule that the loader matched on
\* the raw route id, or as the only rule of the set when it has no id, does not
\* carry it and is still in the stored set, before the new rule.
C15_ShownRuleReplacedWhenItCarriesTheId ==
  \A p \in Admins :
    EditedShownRule(p) =>
      /\ Written(p)[Len(Written(p))] = UpsertedJson(p)
      /\ \A i \in 1..Len(WrittenBefore(p)) :
           Prop(WrittenBefore(p)[i], "discountId") # req[p].discountNodeId
      /\ shown[p].discountId # req[p].discountNodeId
           => \E i \in 1..Len(WrittenBefore(p)) : WrittenBefore(p)[i] = RuleJson(shown[p])

\* C15's case: the store held the legacy rule alone, 20% on P2 and no id, which
\* the loader showed for discount 1; the edit to 10% on P2 wrote its rule after
\* the legacy one, and a cart line of two P2 still gets 20%.
C15_Witness ==
  \E p \in Admins :
    /\ EditedShownRule(p)
    /\ version = 1
    /\ shown[p] = [discountId |-> Undef, percentOff |-> 20, products |-> <<"P2">>,
                   minQty |-> 2]
    /\ req[p].discountNodeId = JStr(Node1)
    /\ req[p].percentOff = 10
    /\ Len(StoredArray) = 2
    /\ CartLinesDiscountsGenerateRun(
         store, <<[id |-> LineId(1), quantity |-> 2, merchandise |-> [product |-> "P2"]]>>)
           .operations[1].candidates = <<[targets |-> <<LineId(1)>>, percentage |-> 20]>>

(***************************************************************************)
(* Properties of one posted request (specification SpecPosted)             *)
(***************************************************************************)
\* The posted request fails the validation of the route's action: the title is
\* empty, percentOff is no finite number within [1,80], no product is
\* selected, or the route lacks the function id (create) or the discount id
\* (edit).
FailsValidation(route) ==
  \/ Trim(posted.title) = ""
  \/ ~IsFinite(StringToNumber(Trim(posted.percentOff)))
  \/ StringToNumber(Trim(posted.percentOff)).fin < 1
  \/ StringToNumber(Trim(posted.percentOff)).fin > 80
  \/ posted.products = <<>>
  \/ (route = "create" /\ Falsy(posted.functionId))
  \/ (route = "edit" /\ Falsy(posted.id))

\* C16: an action whose request fails validation answers 400, has sent no
\* create or update of the discount and has written nothing, so the store is
\* as it was when the request fails both routes' validation; and the rule a
\* successful action wrote has percentOff within [1,80], at least one product,
\* minQty 2 and a discountId.
C16_InvalidInputAnswers400 ==
  /\ \A p \in Admins :
       (pc[p] = "done" /\ req[p].route \in {"create", "edit"}
          /\ FailsValidation(req[p].route))
         => /\ response[p] = 400
            /\ ~issued[p]
            /\ metafieldValue[p] = Undef
  /\ (FailsValidation("create") /\ FailsValidation("edit"))
       => (version = 0 /\ store \in PostedStores)
  /\ \A p \in Admins :
       Succeeded(p) =>
         LET rule == Written(p)[Len(Written(p))] IN
         /\ IsNum(Prop(rule, "percentOff"))
         /\ Prop(rule, "percentOff").num \in 1..80
         /\ IsArr(Prop(rule, "products"))
         /\ Prop(rule, "products").arr # <<>>
         /\ Prop(rule, "minQty") = JNum(2)
         /\ IsStr(Prop(rule, "discountId"))
         /\ Prop(rule, "discountId").str # ""

====
